---------------------------- MODULE Spec2Model ----------------------------
(***************************************************************************)
(* Finance dashboard: the category manager of views/home.py (keyword       *)
(* classification and its JSON snapshot) and the budget reconciliation of  *)
(* views/budget.py.                                                        *)
(*                                                                         *)
(* Strings are sequences of one-character strings, so that str.strip,      *)
(* str.lower and substring search are computed, not assumed.  A Python     *)
(* dict is a sequence of <<key, value>> pairs with distinct keys, in       *)
(* insertion order.                                                        *)
(***************************************************************************)
EXTENDS Integers, Sequences, FiniteSets, TLC

VARIABLES
    categories,          \* CategoryManager.categories (dict: pairs <<name, keywords>>)
    file,                \* content of categories.json
    session_categories,  \* st.session_state["categories"]
    last,                \* the most recent call: operation, arguments, outcome
    debits_df,           \* st.session_state.debits_df: <<>> until set, then <<frame>>
    credits_df,          \* st.session_state.credits_df: <<>> until set, then <<frame>>
    actuals,             \* the most recent _compute_actuals call and its outcome
    manager_data,        \* BudgetManager.data (dict: pairs <<month key, entries>>)
    budget_file,         \* content of budget.json
    budget_session,      \* st.session_state["budget_data"]
    plan_call,           \* the BudgetManager call of the current script run
    sessions,            \* two sessions, each with its own CategoryManager
    writers              \* the sessions that saved, in the order of their saves

catVars == <<categories, file, session_categories, last>>
budgetVars == <<debits_df, credits_df, actuals>>
planVars == <<manager_data, budget_file, budget_session, plan_call>>
raceVars == <<sessions, writers>>
vars == <<categories, file, session_categories, last, debits_df, credits_df, actuals,
          manager_data, budget_file, budget_session, plan_call, sessions, writers>>

----------------------------------------------------------------------------
(* Bounds *)

MaxKeys == 3        \* add_category is not offered beyond this many keys
MaxKeywords == 2    \* add_keyword is not offered beyond this many keywords in a list

----------------------------------------------------------------------------
(* Strings *)

UpperCase == <<"A","B","C","D","E","F","G","H","I","J","K","L","M",
               "N","O","P","Q","R","S","T","U","V","W","X","Y","Z">>
LowerCase == <<"a","b","c","d","e","f","g","h","i","j","k","l","m",
               "n","o","p","q","r","s","t","u","v","w","x","y","z">>

Range(s) == { s[i] : i \in DOMAIN s }

IsSpace(c) == c = " "

LowerChar(c) ==
    IF \E i \in DOMAIN UpperCase : UpperCase[i] = c
    THEN LowerCase[CHOOSE i \in DOMAIN UpperCase : UpperCase[i] = c]
    ELSE c

\* str.lower()
Lower(s) == [i \in DOMAIN s |-> LowerChar(s[i])]

RECURSIVE LStrip(_)
LStrip(s) == IF s # <<>> /\ IsSpace(Head(s)) THEN LStrip(Tail(s)) ELSE s

RECURSIVE RStrip(_)
RStrip(s) ==
    IF s # <<>> /\ IsSpace(s[Len(s)]) THEN RStrip(SubSeq(s, 1, Len(s) - 1)) ELSE s

\* str.strip()
Strip(s) == RStrip(LStrip(s))

\* needle occurs in hay as a contiguous substring
Contains(hay, needle) ==
    \E i \in 0 .. (Len(hay) - Len(needle)) :
        SubSeq(hay, i + 1, i + Len(needle)) = needle

Uncategorized == <<"U","n","c","a","t","e","g","o","r","i","z","e","d">>
Food == <<"F","o","o","d">>
Rent == <<"R","e","n","t">>

----------------------------------------------------------------------------
(* dict *)

Keys(d) == { d[i][1] : i \in DOMAIN d }

DictHas(d, k) == \E i \in DOMAIN d : d[i][1] = k

DictGet(d, k) == d[CHOOSE i \in DOMAIN d : d[i][1] = k][2]

\* d[k] = v: an existing key keeps its position, a new key goes last
DictSet(d, k, v) ==
    IF DictHas(d, k)
    THEN [i \in DOMAIN d |-> IF d[i][1] = k THEN <<k, v>> ELSE d[i]]
    ELSE Append(d, <<k, v>>)

DefaultCategories == << <<Uncategorized, <<>> >> >>

----------------------------------------------------------------------------
(* categories.json *)

Absent == [kind |-> "absent", members |-> <<>>]
\* a JSON object, as the sequence of its members in text order (a text may
\* repeat a name)
ObjectText(members) == [kind |-> "object", members |-> members]
\* a text json.load rejects with JSONDecodeError
Malformed == [kind |-> "malformed", members |-> <<>>]
\* bytes that are not UTF-8: reading them raises UnicodeDecodeError
Undecodable == [kind |-> "undecodable", members |-> <<>>]

\* json.dump of a dict: its items, in order
JsonDump(d) == ObjectText(d)

\* json.load of an object: members are stored one by one, a repeated name
\* overwriting the value stored before
RECURSIVE JsonLoadFrom(_, _)
JsonLoadFrom(members, d) ==
    IF members = <<>> THEN d
    ELSE JsonLoadFrom(Tail(members), DictSet(d, Head(members)[1], Head(members)[2]))

JsonLoad(text) == JsonLoadFrom(text.members, <<>>)

\* The snapshots found on disk when the program starts.  Valid JSON that is
\* not an object of string lists is outside this set.
SnapshotContents ==
    { Absent, Malformed, Undecodable,
      ObjectText(<<>>),
      ObjectText(<< <<Food, << <<"a">> >> >> >>),
      ObjectText(<< <<Uncategorized, <<>> >>, <<Rent, << <<"A">> >> >> >>),
      ObjectText(<< <<Food, << <<"A">> >> >>, <<Uncategorized, <<>> >>,
                    <<Food, << <<"a">> >> >> >>) }

----------------------------------------------------------------------------
(* Inputs *)

NameInputs == { <<>>, <<" ">>, Food, <<" ">> \o Rent \o <<" ">>, Uncategorized }
CategoryInputs == { Uncategorized, Food, Rent }
KeywordInputs == { <<" ">>, <<"a">>, <<" ", "A", " ">> }
\* batches of rows, each row given by its Description
FrameInputs == { << <<"A", "b">>, <<"c">> >>, << <<"c", "a">> >> }

NoFrame == <<"no frame">>

Call(op, args, ret, exc, warned, out) ==
    [op |-> op, args |-> args, ret |-> ret, exc |-> exc, warned |-> warned, out |-> out]

----------------------------------------------------------------------------
(* CategoryManager *)

InitCategories ==
    /\ categories = DefaultCategories
    /\ file \in SnapshotContents
    /\ session_categories = "unset"
    /\ last = Call("__init__", <<>>, "None", "none", FALSE, NoFrame)

\* HomePage() is built anew on every script run
Construct ==
    /\ UNCHANGED <<budgetVars, planVars, raceVars>>
    /\ categories' = DefaultCategories
    /\ last' = Call("__init__", <<>>, "None", "none", FALSE, NoFrame)
    /\ UNCHANGED <<file, session_categories>>

Load ==
    /\ UNCHANGED <<budgetVars, planVars, raceVars>>
    /\ CASE file.kind = "absent" ->
               /\ session_categories' = categories
               /\ last' = Call("load", <<>>, "None", "none", FALSE, NoFrame)
               /\ UNCHANGED <<categories, file>>
         [] file.kind = "object" ->
               /\ categories' = JsonLoad(file)
               /\ session_categories' = categories'
               /\ last' = Call("load", <<>>, "None", "none", FALSE, NoFrame)
               /\ UNCHANGED file
         [] file.kind = "malformed" ->
               /\ categories' = DefaultCategories
               /\ session_categories' = categories'
               /\ last' = Call("load", <<>>, "None", "none", TRUE, NoFrame)
               /\ UNCHANGED file
         [] file.kind = "undecodable" ->
               /\ last' = Call("load", <<>>, "None", "UnicodeDecodeError", FALSE, NoFrame)
               /\ UNCHANGED <<categories, file, session_categories>>

\* the effect of save() on the file and the session state
SaveEffect(cats) ==
    /\ file' = JsonDump(cats)
    /\ session_categories' = cats

Save ==
    /\ UNCHANGED <<budgetVars, planVars, raceVars>>
    /\ SaveEffect(categories)
    /\ last' = Call("save", <<>>, "None", "none", FALSE, NoFrame)
    /\ UNCHANGED categories

\* add_category without the strip()
AddCategoryUntrimmed(name) ==
    /\ UNCHANGED <<budgetVars, planVars, raceVars>>
    /\ IF name = <<>> \/ DictHas(categories, name)
       THEN /\ last' = Call("add_category", <<name>>, FALSE, "none", FALSE, NoFrame)
            /\ UNCHANGED <<categories, file, session_categories>>
       ELSE /\ Len(categories) < MaxKeys
            /\ categories' = DictSet(categories, name, <<>>)
            /\ SaveEffect(categories')
            /\ last' = Call("add_category", <<name>>, TRUE, "none", FALSE, NoFrame)

AddCategory(name) ==
    /\ UNCHANGED <<budgetVars, planVars, raceVars>>
    /\ LET stripped == Strip(name) IN
       IF stripped = <<>> \/ DictHas(categories, stripped)
       THEN /\ last' = Call("add_category", <<name>>, FALSE, "none", FALSE, NoFrame)
            /\ UNCHANGED <<categories, file, session_categories>>
       ELSE /\ Len(categories) < MaxKeys
            /\ categories' = DictSet(categories, stripped, <<>>)
            /\ SaveEffect(categories')
            /\ last' = Call("add_category", <<name>>, TRUE, "none", FALSE, NoFrame)

\* add_keyword that appends without writing the snapshot
AddKeywordUnsaved(category, keyword) ==
    /\ UNCHANGED <<budgetVars, planVars, raceVars>>
    /\ LET stripped == Strip(keyword) IN
       IF ~DictHas(categories, category) \/ stripped = <<>>
             \/ stripped \in Range(DictGet(categories, category))
       THEN /\ last' = Call("add_keyword", <<category, keyword>>, FALSE, "none", FALSE, NoFrame)
            /\ UNCHANGED <<categories, file, session_categories>>
       ELSE /\ Len(DictGet(categories, category)) < MaxKeywords
            /\ categories' = DictSet(categories, category,
                                     Append(DictGet(categories, category), stripped))
            /\ last' = Call("add_keyword", <<category, keyword>>, TRUE, "none", FALSE, NoFrame)
            /\ UNCHANGED <<file, session_categories>>

AddKeyword(category, keyword) ==
    /\ UNCHANGED <<budgetVars, planVars, raceVars>>
    /\ LET stripped == Strip(keyword) IN
       IF ~DictHas(categories, category) \/ stripped = <<>>
       THEN /\ last' = Call("add_keyword", <<category, keyword>>, FALSE, "none", FALSE, NoFrame)
            /\ UNCHANGED <<categories, file, session_categories>>
       ELSE IF stripped \notin Range(DictGet(categories, category))
       THEN /\ Len(DictGet(categories, category)) < MaxKeywords
            /\ categories' = DictSet(categories, category,
                                     Append(DictGet(categories, category), stripped))
            /\ SaveEffect(categories')
            /\ last' = Call("add_keyword", <<category, keyword>>, TRUE, "none", FALSE, NoFrame)
       ELSE /\ last' = Call("add_keyword", <<category, keyword>>, FALSE, "none", FALSE, NoFrame)
            /\ UNCHANGED <<categories, file, session_categories>>

\* "|".join(re.escape(k) for k in keywords), searched in text: some keyword
\* occurs literally
PatternSearch(keywords, text) == \E i \in DOMAIN keywords : Contains(text, keywords[i])

\* one pass of the loop over self.categories.items(), from item i, for one row
RECURSIVE RowCategoryFrom(_, _, _, _)
RowCategoryFrom(cats, i, description, current) ==
    IF i > Len(cats) THEN current
    ELSE IF cats[i][1] = Uncategorized \/ cats[i][2] = <<>>
    THEN RowCategoryFrom(cats, i + 1, description, current)
    ELSE IF PatternSearch(cats[i][2], Lower(description))
    THEN RowCategoryFrom(cats, i + 1, description, cats[i][1])
    ELSE RowCategoryFrom(cats, i + 1, description, current)

\* first match wins: the loop stops at the first category that matches
RECURSIVE RowCategoryFirstMatch(_, _)
RowCategoryFirstMatch(cats, description) ==
    IF cats = <<>> THEN Uncategorized
    ELSE IF Head(cats)[1] # Uncategorized /\ Head(cats)[2] # <<>>
            /\ PatternSearch(Head(cats)[2], Lower(description))
    THEN Head(cats)[1]
    ELSE RowCategoryFirstMatch(Tail(cats), description)

RowCategory(cats, description) == RowCategoryFrom(cats, 1, description, Uncategorized)

CategorizeTransactions(cats, df) ==
    [r \in DOMAIN df |-> [Description |-> df[r], Category |-> RowCategory(cats, df[r])]]

Categorize(df) ==
    /\ UNCHANGED <<budgetVars, planVars, raceVars>>
    /\ last' = Call("categorize_transactions", <<df>>, "df", "none", FALSE,
                    CategorizeTransactions(categories, df))
    /\ UNCHANGED <<categories, file, session_categories>>

----------------------------------------------------------------------------
(* Budget reconciliation (views/budget.py) *)

MaxRows == 2        \* rows of an uploaded statement
MaxPlanRows == 2    \* rows of the edited plan

MAJORS == <<"Expenses", "Income", "Investments">>

\* pd.DataFrame(): no columns, no rows
EmptyFrame == [columns |-> {}, rows |-> <<>>]

\* the columns of a categorized upload
UploadColumns == {"Details", "Posting Date", "Description", "Amount", "Category"}

\* dt.strftime("%Y-%m") of a parsed date <<year, month, day>>
StrfYm(date) == <<date[1], date[2]>>

\* _month_key: f"{ts.year:04d}-{ts.month:02d}"
MonthKey(dt) == <<dt[1], dt[2]>>

Abs(x) == IF x < 0 THEN -x ELSE x

RECURSIVE SumSeq(_)
SumSeq(s) == IF s = <<>> THEN 0 ELSE Head(s) + SumSeq(Tail(s))

Column(rows, name) == [i \in DOMAIN rows |-> rows[i][name]]

\* st.session_state.get(key, pd.DataFrame())
SessionFrame(v) == IF v = <<>> THEN EmptyFrame ELSE v[1]

\* the "_ym" column is added only to a non-empty frame with a "Posting Date"
HasYm(df) == df.rows # <<>> /\ "Posting Date" \in df.columns

\* base[(base.get("_ym") == month_key) & (base["Category"].isin(categories))]
Filtered(base, month_key, cats) ==
    SelectSeq(base.rows,
              LAMBDA row : /\ HasYm(base)
                           /\ StrfYm(row.PostingDate) = month_key
                           /\ row.Category \in cats)

\* the amount summed per row: raw for Income, absolute otherwise
SignedAmount(a) == a
\* the debit amount summed as stored, its sign kept
RawAmount(a) == a
AbsAmount(a) == Abs(a)
AmountOf(major, a) == IF major = "Income" THEN SignedAmount(a) ELSE AbsAmount(a)

\* groupby("Category").sum(), looked up for one category by the left merge;
\* a category without a group is filled with 0.0
ActualFor(major, selected, category) ==
    LET group == SelectSeq(selected, LAMBDA row : row.Category = category) IN
    IF group = <<>> THEN 0
    ELSE SumSeq([i \in DOMAIN group |-> AmountOf(major, group[i].Amount)])

ResultOf(major, planned, actual) ==
    IF major = "Income" THEN actual - planned ELSE planned - actual

Subset(plan_df, major) == SelectSeq(plan_df, LAMBDA e : e.major = major)

BaseOf(major, debits, credits) == IF major = "Income" THEN credits ELSE debits

\* subset.merge(agg_df, on="Category", how="left") with the Result column
Merged(major, month_key, plan_df, base) ==
    LET subset == Subset(plan_df, major)
        cats == { subset[i].category : i \in DOMAIN subset }
        selected == Filtered(base, month_key, cats)
    IN  [i \in DOMAIN subset |->
            LET actual == ActualFor(major, selected, subset[i].category) IN
            [Category |-> subset[i].category,
             Planned |-> subset[i].planned,
             Actual |-> actual,
             Result |-> ResultOf(major, subset[i].planned, actual)]]

\* totals whose Result is taken as Planned - Actual of the totals
TotalsRowByDifference(merged) ==
    [Category |-> "Totals",
     Planned |-> SumSeq(Column(merged, "Planned")),
     Actual |-> SumSeq(Column(merged, "Actual")),
     Result |-> SumSeq(Column(merged, "Planned")) - SumSeq(Column(merged, "Actual"))]

TotalsRow(merged) ==
    [Category |-> "Totals",
     Planned |-> SumSeq(Column(merged, "Planned")),
     Actual |-> SumSeq(Column(merged, "Actual")),
     Result |-> SumSeq(Column(merged, "Result"))]

\* out[major] with a totals row even for a major without plan rows
MajorTableAlwaysTotals(major, month_key, plan_df, debits, credits) ==
    LET merged == Merged(major, month_key, plan_df, BaseOf(major, debits, credits))
    IN  <<TotalsRow(merged)>> \o merged

\* out[major]
MajorTable(major, month_key, plan_df, debits, credits) ==
    IF Subset(plan_df, major) = <<>> THEN <<>>
    ELSE LET merged == Merged(major, month_key, plan_df, BaseOf(major, debits, credits))
         IN  <<TotalsRow(merged)>> \o merged

\* base["Category"] and the Amount column are read for every major that has
\* plan rows; a frame without them raises KeyError
Raises(plan_df, debits, credits) ==
    \E m \in DOMAIN MAJORS :
        /\ Subset(plan_df, MAJORS[m]) # <<>>
        /\ ~({"Category", "Amount"} \subseteq BaseOf(MAJORS[m], debits, credits).columns)

NoTables == <<"no tables">>

ComputeActualsOf(month_key, plan_df, debits, credits) ==
    IF Raises(plan_df, debits, credits)
    THEN [month_key |-> month_key, plan_df |-> plan_df, exc |-> "KeyError", out |-> NoTables]
    ELSE [month_key |-> month_key, plan_df |-> plan_df, exc |-> "none",
          out |-> [major \in Range(MAJORS) |->
                      MajorTable(major, month_key, plan_df, debits, credits)]]

(* Inputs *)

DetailsInputs == <<"DEBIT", "CREDIT">>
DateInputs == << <<2024, 3, 5>>, <<2024, 4, 9>> >>
TxCategoryInputs == <<"Groceries", "Salary">>
\* amounts are numbers, as the sums and .abs() of _compute_actuals take them
AmountInputs == <<-3, 5>>
MonthInputs == { <<2024, 3, 1>>, <<2024, 4, 1>> }
\* the month reconciled: the uploads hold rows posted in it and rows posted after it
ReconciledMonths == { <<2024, 3, 1>> }
PlannedInputs == {4}

TxRows ==
    { [Details |-> DetailsInputs[d], PostingDate |-> DateInputs[t],
       Category |-> TxCategoryInputs[c], Amount |-> AmountInputs[a]] :
        d \in DOMAIN DetailsInputs, t \in DOMAIN DateInputs,
        c \in DOMAIN TxCategoryInputs, a \in DOMAIN AmountInputs }

Index(seq, x) == CHOOSE i \in DOMAIN seq : seq[i] = x

Rank(row) ==
    8 * Index(DetailsInputs, row.Details) + 4 * Index(DateInputs, row.PostingDate)
    + 2 * Index(TxCategoryInputs, row.Category) + Index(AmountInputs, row.Amount)

\* the statements uploaded, up to the order of their rows (no sum depends on it)
Uploads ==
    { data \in UNION { [1 .. n -> TxRows] : n \in 0 .. MaxRows } :
        \A i \in 1 .. (Len(data) - 1) : Rank(data[i]) <= Rank(data[i + 1]) }

PlanRows ==
    [major : Range(MAJORS), category : Range(TxCategoryInputs), planned : PlannedInputs]

Plans == UNION { [1 .. n -> PlanRows] : n \in 0 .. MaxPlanRows }

(* Actions *)

\* actuals is a local of BudgetPage.render: unbound until the run computes it
NotComputed == [month_key |-> <<>>, plan_df |-> <<>>, exc |-> "none", out |-> NoTables]

\* HomePage._show_file_uploader: the categorized upload is split by Details
DebitsOf(data) ==
    [columns |-> UploadColumns, rows |-> SelectSeq(data, LAMBDA row : row.Details = "DEBIT")]

CreditsOf(data) ==
    [columns |-> UploadColumns, rows |-> SelectSeq(data, LAMBDA row : row.Details = "CREDIT")]

\* the session state as the Home page left it: nothing uploaded yet, or the
\* two frames of an upload
InitBudget ==
    /\ \/ debits_df = <<>> /\ credits_df = <<>>
       \/ \E data \in Uploads :
             debits_df = <<DebitsOf(data)>> /\ credits_df = <<CreditsOf(data)>>
    /\ actuals = NotComputed

\* BudgetPage.render: actuals = self._compute_actuals(month, edited_df)
ComputeActuals(month_date, plan_df) ==
    /\ actuals = NotComputed
    /\ actuals' = ComputeActualsOf(MonthKey(month_date), plan_df,
                                   SessionFrame(debits_df), SessionFrame(credits_df))
    /\ UNCHANGED <<debits_df, credits_df>>
    /\ UNCHANGED <<catVars, planVars, raceVars>>

\* the script run ends and the next one starts: render's locals are gone
Rerun ==
    /\ actuals # NotComputed
    /\ actuals' = NotComputed
    /\ UNCHANGED <<debits_df, credits_df>>
    /\ UNCHANGED <<catVars, planVars, raceVars>>

NextBudget ==
    \/ Rerun
    \/ \E month_date \in ReconciledMonths, plan_df \in Plans : ComputeActuals(month_date, plan_df)

----------------------------------------------------------------------------
(* BudgetManager: the plans of budget.json *)

MaxEditedRows == 2

\* the cells of an edited plan table: None, a str, a number
NoneCell == <<"None">>
StrCell(s) == <<"str", s>>
NumCell(n) == <<"num", n>>

IsNa(cell) == cell[1] = "None"

Digits == <<"0", "1", "2", "3", "4", "5", "6", "7", "8", "9">>

IsDigit(c) == \E i \in DOMAIN Digits : Digits[i] = c

DigitValue(c) == (CHOOSE i \in DOMAIN Digits : Digits[i] = c) - 1

RECURSIVE ParseDigits(_, _)
ParseDigits(text, acc) ==
    IF text = <<>> THEN acc
    ELSE ParseDigits(Tail(text), 10 * acc + DigitValue(Head(text)))

NaN == <<"NaN">>

\* pd.to_numeric(..., errors="coerce") of one cell: a number stays, a text is
\* parsed as a signed decimal numeral, anything else is NaN
ToNumeric(cell) ==
    CASE cell[1] = "num" -> cell
      [] cell[1] = "None" -> NaN
      [] cell[1] = "str" ->
            LET text == cell[2]
                signed == text # <<>> /\ Head(text) = "-"
                digits == IF signed THEN Tail(text) ELSE text
            IN IF digits # <<>> /\ \A i \in DOMAIN digits : IsDigit(digits[i])
               THEN NumCell(IF signed THEN 0 - ParseDigits(digits, 0)
                            ELSE ParseDigits(digits, 0))
               ELSE NaN

\* .fillna(0.0)
FillNa(cell) == IF cell = NaN THEN 0 ELSE cell[2]

\* .astype(str) of a str cell
AsStr(cell) == cell[2]

\* .dropna(subset=["major", "category"])
DropNa(df) == SelectSeq(df, LAMBDA row : ~IsNa(row.major) /\ ~IsNa(row.category))

\* safe.to_dict(orient="records")
Records(df) ==
    LET safe == DropNa(df) IN
    [i \in DOMAIN safe |->
        [major |-> AsStr(safe[i].major),
         category |-> AsStr(safe[i].category),
         planned |-> FillNa(ToNumeric(safe[i].planned))]]

\* budget.json as the program finds it
BudgetSnapshots ==
    { Absent, Malformed, Undecodable,
      ObjectText(<<>>),
      ObjectText(<< <<MonthKey(DateInputs[2]),
                      << [major |-> "Expenses", category |-> "Groceries", planned |-> 4] >> >> >>) }

\* the rows a plan editor hands to set_month_df
EditedRows ==
    { [major |-> StrCell("Expenses"), category |-> StrCell("Groceries"), planned |-> p] :
        p \in { StrCell(<<"4">>), NumCell(-1), StrCell(<<"x">>) } }
    \cup { [major |-> NoneCell, category |-> StrCell("Groceries"), planned |-> NoneCell],
           [major |-> StrCell("Expenses"), category |-> NoneCell, planned |-> NumCell(-1)] }

EditedFrames == UNION { [1 .. n -> EditedRows] : n \in 0 .. MaxEditedRows }

PlanCall(op, month_key, df, exc, warned) ==
    [op |-> op, month_key |-> month_key, df |-> df, exc |-> exc, warned |-> warned]

\* no script run is using the budget page
PlanIdle ==
    /\ manager_data = <<>>
    /\ budget_file = Absent
    /\ budget_session = <<>>
    /\ plan_call = PlanCall("idle", <<>>, <<>>, "none", FALSE)

InitPlan ==
    /\ manager_data = <<>>
    /\ budget_file \in BudgetSnapshots
    /\ budget_session = <<>>
    /\ plan_call = PlanCall("__init__", <<>>, <<>>, "none", FALSE)

\* BudgetPage(): every script run builds a new BudgetManager
BudgetConstruct ==
    /\ plan_call.op = "idle"
    /\ manager_data' = <<>>
    /\ plan_call' = PlanCall("__init__", <<>>, <<>>, "none", FALSE)
    /\ UNCHANGED <<budget_file, budget_session>>
    /\ UNCHANGED <<catVars, budgetVars, raceVars>>

\* BudgetManager.load
BudgetLoad ==
    /\ plan_call.op = "__init__"
    /\ UNCHANGED <<catVars, budgetVars, raceVars>>
    /\ CASE budget_file.kind = "absent" ->
               /\ budget_session' = <<manager_data>>
               /\ plan_call' = PlanCall("load", <<>>, <<>>, "none", FALSE)
               /\ UNCHANGED <<manager_data, budget_file>>
         [] budget_file.kind = "object" ->
               /\ manager_data' = JsonLoad(budget_file)
               /\ budget_session' = <<manager_data'>>
               /\ plan_call' = PlanCall("load", <<>>, <<>>, "none", FALSE)
               /\ UNCHANGED budget_file
         [] budget_file.kind = "malformed" ->
               /\ manager_data' = <<>>
               /\ budget_session' = <<manager_data'>>
               /\ plan_call' = PlanCall("load", <<>>, <<>>, "none", TRUE)
               /\ UNCHANGED budget_file
         [] budget_file.kind = "undecodable" ->
               /\ plan_call' = PlanCall("load", <<>>, <<>>, "UnicodeDecodeError", FALSE)
               /\ UNCHANGED <<manager_data, budget_file, budget_session>>

\* BudgetManager.save
BudgetSaveEffect(d) ==
    /\ budget_file' = JsonDump(d)
    /\ budget_session' = <<d>>

\* set_month_df that adds the validated rows to the month's list
SetMonthDfAppending(month_date, df) ==
    /\ plan_call.op = "load"
    /\ plan_call.exc = "none"
    /\ manager_data' = DictSet(manager_data, MonthKey(month_date),
                       (IF DictHas(manager_data, MonthKey(month_date))
                        THEN DictGet(manager_data, MonthKey(month_date)) ELSE <<>>) \o Records(df))
    /\ BudgetSaveEffect(manager_data')
    /\ plan_call' = PlanCall("set_month_df", MonthKey(month_date), df, "none", FALSE)
    /\ UNCHANGED <<catVars, budgetVars, raceVars>>

\* BudgetManager.set_month_df, called by render after load
SetMonthDf(month_date, df) ==
    /\ plan_call.op = "load"
    /\ plan_call.exc = "none"
    /\ manager_data' = DictSet(manager_data, MonthKey(month_date), Records(df))
    /\ BudgetSaveEffect(manager_data')
    /\ plan_call' = PlanCall("set_month_df", MonthKey(month_date), df, "none", FALSE)
    /\ UNCHANGED <<catVars, budgetVars, raceVars>>

\* the script run ends: the BudgetPage and its manager are dropped
RunEnds ==
    /\ plan_call.op \in {"load", "set_month_df"}
    /\ plan_call' = PlanCall("idle", <<>>, <<>>, "none", FALSE)
    /\ UNCHANGED <<manager_data, budget_file, budget_session>>
    /\ UNCHANGED <<catVars, budgetVars, raceVars>>

NextPlan ==
    \/ BudgetConstruct
    \/ BudgetLoad
    \/ \E month_date \in MonthInputs, df \in EditedFrames : SetMonthDf(month_date, df)
    \/ RunEnds

\* no second session is open
RaceIdle ==
    /\ sessions = <<>>
    /\ writers = <<>>

----------------------------------------------------------------------------
(* Two sessions over one categories.json *)

SessionIds == {1, 2}

NoMutation == <<"none">>

\* a session's CategoryManager and its progress through load, add, save
Session(pc, cats, loaded, seen, added) ==
    [pc |-> pc, categories |-> cats, loaded |-> loaded, seen |-> seen, added |-> added]

\* CategoryManager(): not loaded yet
NewSession == Session("new", DefaultCategories, <<>>, 0, NoMutation)

InitRace ==
    /\ sessions = [s \in SessionIds |-> NewSession]
    /\ writers = <<>>

\* load() in session s, as one step; seen counts the saves that came before
RaceLoad(s) ==
    /\ sessions # <<>>
    /\ sessions[s].pc = "new"
    /\ sessions' =
          [sessions EXCEPT ![s] =
              CASE file.kind = "absent" ->
                      Session("loaded", sessions[s].categories, sessions[s].categories,
                              Len(writers), NoMutation)
                [] file.kind = "object" ->
                      Session("loaded", JsonLoad(file), JsonLoad(file), Len(writers), NoMutation)
                [] file.kind = "malformed" ->
                      Session("loaded", DefaultCategories, DefaultCategories,
                              Len(writers), NoMutation)
                [] file.kind = "undecodable" ->
                      Session("raised", sessions[s].categories, <<>>, Len(writers), NoMutation)]
    /\ UNCHANGED <<writers, catVars, budgetVars, planVars>>

\* add_category up to its call of save(): self.categories[name] = []
RaceAddCategory(s, name) ==
    /\ sessions # <<>>
    /\ sessions[s].pc = "loaded"
    /\ LET stripped == Strip(name)
           cats == sessions[s].categories
       IN  sessions' =
              [sessions EXCEPT ![s] =
                  IF stripped = <<>> \/ DictHas(cats, stripped)
                  THEN [@ EXCEPT !.pc = "returned"]
                  ELSE [@ EXCEPT !.pc = "saving",
                                 !.categories = DictSet(cats, stripped, <<>>),
                                 !.added = <<"category", stripped>>]]
    /\ UNCHANGED <<writers, catVars, budgetVars, planVars>>

\* add_keyword up to its call of save(): self.categories[category].append(keyword)
RaceAddKeyword(s, category, keyword) ==
    /\ sessions # <<>>
    /\ sessions[s].pc = "loaded"
    /\ LET stripped == Strip(keyword)
           cats == sessions[s].categories
       IN  sessions' =
              [sessions EXCEPT ![s] =
                  IF ~DictHas(cats, category) \/ stripped = <<>>
                  THEN [@ EXCEPT !.pc = "returned"]
                  ELSE IF stripped \notin Range(DictGet(cats, category))
                  THEN [@ EXCEPT !.pc = "saving",
                                 !.categories = DictSet(cats, category,
                                                        Append(DictGet(cats, category), stripped)),
                                 !.added = <<"keyword", category, stripped>>]
                  ELSE [@ EXCEPT !.pc = "returned"]]
    /\ UNCHANGED <<writers, catVars, budgetVars, planVars>>

\* a save that writes the union of the file's members and the session's
RaceSaveMerging(s) ==
    /\ sessions # <<>>
    /\ sessions[s].pc = "saving"
    /\ file' = JsonDump(JsonLoadFrom(sessions[s].categories,
                                     IF file.kind = "object" THEN JsonLoad(file) ELSE <<>>))
    /\ sessions' = [sessions EXCEPT ![s].pc = "saved"]
    /\ writers' = Append(writers, s)
    /\ UNCHANGED <<categories, session_categories, last, budgetVars, planVars>>

\* save() in session s, as one step
RaceSave(s) ==
    /\ sessions # <<>>
    /\ sessions[s].pc = "saving"
    /\ file' = JsonDump(sessions[s].categories)
    /\ sessions' = [sessions EXCEPT ![s].pc = "saved"]
    /\ writers' = Append(writers, s)
    /\ UNCHANGED <<categories, session_categories, last, budgetVars, planVars>>

NextRace ==
    \E s \in SessionIds :
        \/ RaceLoad(s)
        \/ \E name \in NameInputs : RaceAddCategory(s, name)
        \/ \E category \in CategoryInputs, keyword \in KeywordInputs :
              RaceAddKeyword(s, category, keyword)
        \/ RaceSave(s)

Next ==
    \/ Construct
    \/ Load
    \/ Save
    \/ \E name \in NameInputs : AddCategory(name)
    \/ \E category \in CategoryInputs, keyword \in KeywordInputs : AddKeyword(category, keyword)
    \/ \E df \in FrameInputs : Categorize(df)

\* the category manager, before any upload
Init ==
    /\ InitCategories
    /\ debits_df = <<>>
    /\ credits_df = <<>>
    /\ actuals = NotComputed
    /\ PlanIdle
    /\ RaceIdle

Spec == Init /\ [][Next]_vars

\* the budget page, beside a category manager that stays as constructed
InitBudgetPage ==
    /\ categories = DefaultCategories
    /\ file = Absent
    /\ session_categories = "unset"
    /\ last = Call("__init__", <<>>, "None", "none", FALSE, NoFrame)
    /\ InitBudget
    /\ PlanIdle
    /\ RaceIdle

SpecBudget == InitBudgetPage /\ [][NextBudget]_vars

\* the budget page's manager, beside the rest as constructed
InitPlanPage ==
    /\ categories = DefaultCategories
    /\ file = Absent
    /\ session_categories = "unset"
    /\ last = Call("__init__", <<>>, "None", "none", FALSE, NoFrame)
    /\ debits_df = <<>>
    /\ credits_df = <<>>
    /\ actuals = NotComputed
    /\ InitPlan
    /\ RaceIdle

SpecPlan == InitPlanPage /\ [][NextPlan]_vars

\* two sessions opened on the same working directory
InitTwoSessions ==
    /\ InitCategories
    /\ debits_df = <<>>
    /\ credits_df = <<>>
    /\ actuals = NotComputed
    /\ PlanIdle
    /\ InitRace

SpecRace == InitTwoSessions /\ [][NextRace]_vars

----------------------------------------------------------------------------
(* Properties of the category manager *)

Max(S) == CHOOSE x \in S : \A y \in S : y <= x

Classified == last.op = "categorize_transactions"

\* C1: every row returned by categorize_transactions has a Category that is
\* a key of the manager's categories at that moment.
C1_CategoryIsKey ==
    Classified => \A r \in DOMAIN last.out : DictHas(categories, last.out[r].Category)

\* the positions of the categories whose rule matches the description: not
\* the default, a non-empty keyword list, and a keyword (as stored) occurring
\* in the lower-cased description
MatchingItems(cats, description) ==
    { i \in DOMAIN cats :
        /\ cats[i][1] # Uncategorized
        /\ cats[i][2] # <<>>
        /\ \E k \in Range(cats[i][2]) : Contains(Lower(description), k) }

\* C2: last match wins: a row gets the matching category that comes last in
\* the dict's order, and "Uncategorized" when no category matches.
C2_LastMatchWins ==
    Classified =>
        \A r \in DOMAIN last.out :
            LET m == MatchingItems(categories, last.args[1][r]) IN
            last.out[r].Category =
                IF m = {} THEN Uncategorized ELSE categories[Max(m)][1]

C2_Witness ==
    /\ Classified
    /\ \E r \in DOMAIN last.out :
          LET m == MatchingItems(categories, last.args[1][r]) IN
          /\ Cardinality(m) >= 2
          /\ last.out[r].Category = categories[Max(m)][1]
    /\ \E r \in DOMAIN last.out : last.out[r].Category = Uncategorized

\* the positions of the categories with a keyword that occurs in the
\* description up to letter case
MatchingItemsIgnoringCase(cats, description) ==
    { i \in DOMAIN cats :
        /\ cats[i][1] # Uncategorized
        /\ cats[i][2] # <<>>
        /\ \E k \in Range(cats[i][2]) : Contains(Lower(description), Lower(k)) }

\* C3: matching is case-insensitive: a category with a keyword equal, up to
\* letter case, to a substring of the description matches the row, so the row
\* gets that category or a later one that matches in the same way.
C3_CaseInsensitive ==
    Classified =>
        \A r \in DOMAIN last.out :
            \A i \in MatchingItemsIgnoringCase(categories, last.args[1][r]) :
                \E j \in MatchingItemsIgnoringCase(categories, last.args[1][r]) :
                    j >= i /\ last.out[r].Category = categories[j][1]

\* C4: the categories always contain the key "Uncategorized".
C4_ReservedKey == DictHas(categories, Uncategorized)

\* C5: save() then load() gives the saved map back, with "Uncategorized"
\* added with an empty list when the saved map lacked it; order is kept.
C5_RoundTrip ==
    [][ (last.op = "save" /\ last'.op = "load") =>
          IF DictHas(categories, Uncategorized)
          THEN categories' = categories
          ELSE /\ DictHas(categories', Uncategorized)
               /\ DictGet(categories', Uncategorized) = <<>>
               /\ SelectSeq(categories', LAMBDA it : it[1] # Uncategorized) = categories
      ]_vars

\* C6: add_keyword returns False and changes neither the map nor the
\* snapshot when the category is unknown, the trimmed keyword is empty or it
\* is already in the category's list; otherwise it appends the trimmed
\* keyword to that list only, writes the whole map, and returns True.
C6_AddKeyword ==
    [][ last'.op = "add_keyword" =>
          LET category == last'.args[1]
              keyword == Strip(last'.args[2])
          IN  IF \/ ~DictHas(categories, category)
                 \/ keyword = <<>>
                 \/ keyword \in Range(DictGet(categories, category))
              THEN /\ last'.ret = FALSE
                   /\ categories' = categories
                   /\ file' = file
              ELSE /\ last'.ret = TRUE
                   /\ Len(categories') = Len(categories)
                   /\ \A i \in DOMAIN categories :
                         categories'[i] =
                            IF categories[i][1] = category
                            THEN <<category, Append(categories[i][2], keyword)>>
                            ELSE categories[i]
                   /\ file'.kind = "object"
                   /\ file'.members = categories'
      ]_vars

C6_Witness ==
    /\ last.op = "add_keyword"
    /\ last.ret = TRUE
    /\ last.args[2] # Strip(last.args[2])
    /\ Len(categories) >= 2
    /\ Len(DictGet(categories, last.args[1])) >= 2

\* C7: add_category returns False and changes neither the map nor the
\* snapshot when the trimmed name is empty or already a key; otherwise it
\* adds the trimmed name as the last key with an empty list, keeps every
\* existing item, writes the whole map, and returns True.
C7_AddCategory ==
    [][ last'.op = "add_category" =>
          LET name == Strip(last'.args[1]) IN
          IF name = <<>> \/ name \in Keys(categories)
          THEN /\ last'.ret = FALSE
               /\ categories' = categories
               /\ file' = file
          ELSE /\ last'.ret = TRUE
               /\ categories' = categories \o << <<name, <<>> >> >>
               /\ file'.kind = "object"
               /\ file'.members = categories'
      ]_vars

C7_Witness ==
    /\ last.op = "add_category"
    /\ last.ret = TRUE
    /\ last.args[1] # Strip(last.args[1])
    /\ Len(categories) >= 2
    /\ \E i \in DOMAIN categories : categories[i][2] # <<>>

\* C8: load never raises, and on a snapshot that cannot be parsed the
\* categories are the default map and a warning is shown.
C8_LoadFailsSoft ==
    last.op = "load" =>
        /\ last.exc = "none"
        /\ file.kind \in {"malformed", "undecodable"} =>
              (categories = DefaultCategories /\ last.warned)

----------------------------------------------------------------------------
(* Properties of the reconciliation *)

RECURSIVE SumOver(_, _)
SumOver(S, f) ==
    IF S = {} THEN 0
    ELSE LET x == CHOOSE y \in S : TRUE IN f[x] + SumOver(S \ {x}, f)

Reconciled == actuals # NotComputed /\ actuals.exc = "none"

\* C9: for each major with at least one plan row, the table starts with the
\* one prepended "Totals" row, whose Planned, Actual and Result are the sums
\* of those columns over all the rows after it.
C9_TotalsRow ==
    Reconciled =>
        \A major \in Range(MAJORS) :
            Subset(actuals.plan_df, major) # <<>> =>
                LET t == actuals.out[major] IN
                /\ Len(t) = 1 + Len(Subset(actuals.plan_df, major))
                /\ t[1].Category = "Totals"
                /\ \A col \in {"Planned", "Actual", "Result"} :
                      t[1][col] = SumOver(2 .. Len(t), [i \in 2 .. Len(t) |-> t[i][col]])

C9_Witness ==
    /\ Reconciled
    /\ \E major \in Range(MAJORS) :
          LET t == actuals.out[major] IN
          /\ Len(t) = 3
          /\ t[2].Actual # 0
          /\ t[3].Actual # 0
          /\ t[1].Actual = t[2].Actual + t[3].Actual

----------------------------------------------------------------------------
(* Properties of the plan store *)

\* the decimal numeral of a small integer
Numeral(n) == IF n < 0 THEN <<"-", Digits[1 - n]>> ELSE <<Digits[n + 1]>>

\* the number a planned cell stands for, 0 when it stands for none
PlannedOf(cell) ==
    IF cell[1] = "num" THEN cell[2]
    ELSE IF cell[1] = "str" /\ \E n \in -9 .. 9 : cell[2] = Numeral(n)
         THEN CHOOSE n \in -9 .. 9 : cell[2] = Numeral(n)
         ELSE 0

\* the rows of an edited table that carry both a major and a category
Complete(df) == SelectSeq(df, LAMBDA row : row.major # NoneCell /\ row.category # NoneCell)

SetStep == plan_call.op = "load" /\ plan_call'.op = "set_month_df"

\* C11: set_month_df(month_key, df) makes the list stored under month_key
\* exactly the rows of df that carry a major and a category, in df's order,
\* with planned as a number (0 when the cell is no number); the list of every
\* other month stays as it was, no month appears or disappears, and
\* budget.json then reads back as the manager's data.
C11_SetMonthDf ==
    [][SetStep =>
        LET month_key == plan_call'.month_key
            kept == Complete(plan_call'.df)
        IN /\ DictHas(manager_data', month_key)
           /\ LET stored == DictGet(manager_data', month_key)
              IN /\ Len(stored) = Len(kept)
                 /\ \A i \in DOMAIN kept :
                       /\ stored[i].major = kept[i].major[2]
                       /\ stored[i].category = kept[i].category[2]
                       /\ stored[i].planned = PlannedOf(kept[i].planned)
           /\ Keys(manager_data') = Keys(manager_data) \cup {month_key}
           /\ \A k \in Keys(manager_data) \ {month_key} :
                 DictGet(manager_data', k) = DictGet(manager_data, k)
           /\ budget_file'.kind = "object"
           /\ JsonLoad(budget_file') = manager_data'
           /\ budget_session' = <<manager_data'>>
    ]_vars

\* a month that had a plan is given a shorter one, another month keeps its
\* plan, and a row without a major was dropped
C11_Witness ==
    /\ plan_call.op = "set_month_df"
    /\ Len(plan_call.df) = 2
    /\ Len(DictGet(manager_data, plan_call.month_key)) = 1
    /\ plan_call.df[1].major = NoneCell
    /\ DictGet(manager_data, plan_call.month_key)[1].planned = 4
    /\ \E k \in Keys(manager_data) : k # plan_call.month_key /\ Len(DictGet(manager_data, k)) = 2
    /\ JsonLoad(budget_file) = manager_data

\* C12: no plan stored through set_month_df holds a negative planned amount:
\* a call that carries one leaves the stored plans as they were.
C12_NoNegativePlanned ==
    \A i \in DOMAIN manager_data :
        \A j \in DOMAIN manager_data[i][2] : manager_data[i][2][j].planned >= 0

----------------------------------------------------------------------------
(* Properties of reconciliation: majors without plan rows, missing sources,
   repeated plan rows *)

Uploaded == debits_df # <<>> /\ credits_df # <<>>

SourceOf(major) == IF major = "Income" THEN credits_df ELSE debits_df

\* the source table was never uploaded, has no row, or has no "Posting Date"
SourceMissing(major) ==
    \/ SourceOf(major) = <<>>
    \/ /\ SourceOf(major) # <<>>
       /\ \/ SourceOf(major)[1].rows = <<>>
          \/ "Posting Date" \notin SourceOf(major)[1].columns

\* C14: when the source table of a major with plan rows was never uploaded,
\* is empty or has no posting-date column, _compute_actuals returns and the
\* major's Totals row and every category row of it have Actual = 0.
C14_MissingSource ==
    actuals # NotComputed =>
        \A major \in Range(MAJORS) :
            (Subset(actuals.plan_df, major) # <<>> /\ SourceMissing(major)) =>
                /\ actuals.exc = "none"
                /\ Len(actuals.out[major]) = 1 + Len(Subset(actuals.plan_df, major))
                /\ \A i \in DOMAIN actuals.out[major] : actuals.out[major][i].Actual = 0

\* the part of C14 that the code keeps: an uploaded table without rows
EmptyUploadGivesZero ==
    actuals # NotComputed =>
        \A major \in Range(MAJORS) :
            (Subset(actuals.plan_df, major) # <<>> /\ SourceOf(major) # <<>>
             /\ SourceMissing(major)) =>
                /\ actuals.exc = "none"
                /\ \A i \in DOMAIN actuals.out[major] : actuals.out[major][i].Actual = 0

\* the amounts of the major's source rows posted in the month under a
\* category, each row taken once
MatchingAmounts(major, month_key, category) ==
    LET source == IF SourceOf(major) = <<>> THEN <<>> ELSE SourceOf(major)[1].rows
        hits == { j \in DOMAIN source :
                    /\ source[j].PostingDate[1] = month_key[1]
                    /\ source[j].PostingDate[2] = month_key[2]
                    /\ source[j].Category = category }
    IN  SumOver(hits, [j \in hits |->
                          IF major = "Income" \/ source[j].Amount >= 0
                          THEN source[j].Amount ELSE 0 - source[j].Amount])

\* C15: plan rows that repeat a (major, category) are summed: the major's
\* table has one row for the category, its Planned is the sum of the planned
\* amounts of the repeated rows, its Actual is the sum of the matching
\* transactions of the month, each counted once, and the Totals Actual is
\* the sum of those Actuals over the major's distinct categories.
C15_DuplicatesSummed ==
    Reconciled =>
        \A major \in Range(MAJORS) :
            LET subset == Subset(actuals.plan_df, major)
                cats == { subset[i].category : i \in DOMAIN subset }
                t == actuals.out[major]
            IN  subset # <<>> =>
                  /\ \A c \in cats :
                        LET rows == { i \in 2 .. Len(t) : t[i].Category = c }
                            same == { i \in DOMAIN subset : subset[i].category = c }
                        IN  /\ Cardinality(rows) = 1
                            /\ \A i \in rows :
                                  /\ t[i].Planned = SumOver(same, [k \in same |-> subset[k].planned])
                                  /\ t[i].Actual = MatchingAmounts(major, actuals.month_key, c)
                  /\ t[1].Actual =
                        SumOver(cats, [c \in cats |-> MatchingAmounts(major, actuals.month_key, c)])

----------------------------------------------------------------------------
(* Properties of two sessions *)

BothSaved == sessions # <<>> /\ \A s \in SessionIds : sessions[s].pc = "saved"

\* what a session added is in the map d
Holds(d, added) ==
    CASE added[1] = "category" -> DictHas(d, added[2])
      [] added[1] = "keyword" ->
            DictHas(d, added[2]) /\ added[3] \in Range(DictGet(d, added[2]))
      [] OTHER -> FALSE

\* C16: once both sessions have saved, whatever the order of their loads and
\* saves, categories.json is the dump of the in-memory map of the session
\* that saved last; when that session loaded before the other one saved,
\* what the other one added is not in the file unless the last writer had
\* loaded it or added it itself.
C16_LastWriterWins ==
    BothSaved =>
        LET earlier == writers[1]
            later == writers[2]
        IN  /\ Len(writers) = 2
            /\ earlier # later
            /\ file = JsonDump(sessions[later].categories)
            /\ JsonLoad(file) = sessions[later].categories
            /\ (/\ sessions[later].seen = 0
                /\ ~Holds(sessions[later].loaded, sessions[earlier].added)
                /\ sessions[later].added # sessions[earlier].added)
               => ~Holds(JsonLoad(file), sessions[earlier].added)

\* both loaded the same snapshot, each added another category, and the file
\* holds only the later writer's
C16_Witness ==
    /\ BothSaved
    /\ sessions[writers[2]].seen = 0
    /\ sessions[writers[1]].seen = 0
    /\ sessions[writers[1]].added[1] = "category"
    /\ sessions[writers[2]].added[1] = "category"
    /\ sessions[writers[1]].added # sessions[writers[2]].added
    /\ ~Holds(JsonLoad(file), sessions[writers[1]].added)
    /\ Holds(JsonLoad(file), sessions[writers[2]].added)

====
